---------------------------- MODULE Spec2Model ----------------------------
(***************************************************************************)
(* A model of the dependency handler: the pip-backed descriptors           *)
(* (PipDependency, PipPathDependency, PipTxtDependency) of                 *)
(* dependencyhandler/pipdependencies.py and the batch driver               *)
(* install_dependencies of dependencyhandler/batchprocess.py.              *)
(*                                                                         *)
(* Strings of the program (module names, package specs, paths) are         *)
(* sequences of one-character strings, so that concatenation and           *)
(* normalisation are computed as the code computes them.                   *)
(*                                                                         *)
(* The environment the code acts on:                                       *)
(*   modules   sys.modules, as the set of names registered in it           *)
(*   pkgs      what the import path finders locate for a name: nothing, a  *)
(*             regular module/package (a spec with a loader) or a          *)
(*             namespace package (a spec whose loader is None)             *)
(*   file      the current contents of the requirements file               *)
(* The model takes the distribution name to be the import name and the     *)
(* install target to be on the import path (the FIXME of                   *)
(* _parse_requirements), and the platform to be the one on which           *)
(* subprocess.CREATE_NEW_CONSOLE exists.                                   *)
(***************************************************************************)
EXTENDS Integers, Sequences, FiniteSets, TLC

VARIABLES
    modules,       \* sys.modules: the set of registered names
    pkgs,          \* name -> what the path finders locate
    file,          \* the requirements file as it is now
    srcFile,       \* history: the contents __init__ read
    requirements,  \* PipTxtDependency._requirements
    last           \* the last call: its arguments, outcome and pre-state

vars == <<modules, pkgs, file, srcFile, requirements, last>>

----------------------------------------------------------------------------
\* Bounds of the model.

MaxLines == 2
MaxParseLines == 2
MaxDeps == 2

----------------------------------------------------------------------------
\* Strings.

A == <<"a">>
B == <<"b">>
MP == <<"m", "_", "_", "p">>
UrlB == <<"u", ":", "b">>
TxtName == <<"r">>
TxtPath == <<"r", ".", "t">>
NoStr == <<>>

Names == {A, B}

\* What the import path finders locate for a name.
Kinds == {"absent", "module", "namespace"}

ExitCodes == {0, 1}

\* The characters pkg_resources.safe_name keeps: [A-Za-z0-9.].
NameChars == {"a", "b", "m", "p", "r", "t", "1", "2", "."}

\* The characters that start a version specifier in a package spec.
SpecChars == {"<", ">", "=", "!", "~"}

----------------------------------------------------------------------------
\* A line of the requirements file: its leading whitespace (0 or 1), what
\* follows it, and for a requirement what pkg_resources parses from it (the
\* name as written, the version specifiers in the order Requirement.specs
\* lists them, the direct URL).

BlankLine(lead) == [lead |-> lead, kind |-> "blank", name |-> NoStr, specs |-> <<>>, url |-> NoStr]

CommentLine(lead) == [lead |-> lead, kind |-> "comment", name |-> NoStr, specs |-> <<>>, url |-> NoStr]

ReqLine(lead, name, specs, url) == [lead |-> lead, kind |-> "req", name |-> name, specs |-> specs, url |-> url]

GE1 == <<<<">", "=">>, <<"1">>>>
LT2 == <<<<"<">>, <<"2">>>>

\* The lines of the lifecycle specifications: "a>=1" and "b @ u:b".
MainLines == {ReqLine(0, A, <<GE1>>, NoStr), ReqLine(0, B, <<>>, UrlB)}

\* The lines of the parsing specification.
ParseLines ==
    {BlankLine(0), BlankLine(1), CommentLine(0), CommentLine(1),
     ReqLine(0, A, <<>>, NoStr), ReqLine(1, A, <<GE1, LT2>>, NoStr),
     ReqLine(0, MP, <<LT2>>, NoStr), ReqLine(0, B, <<>>, UrlB)}

SeqsUpTo(S, n) == UNION {[1..k -> S] : k \in 0..n}

MainFiles == SeqsUpTo(MainLines, MaxLines)

ParseFiles == SeqsUpTo(ParseLines, MaxParseLines)

----------------------------------------------------------------------------
\* Descriptors.

PipDependency(name, package, destination) ==
    [type |-> "pip", name |-> name, package |-> package, path |-> NoStr,
     destination |-> destination]

PipPathDependency(name, path, destination) ==
    [type |-> "path", name |-> name, package |-> NoStr, path |-> path,
     destination |-> destination]

PipTxtDependency(name, path, destination) ==
    [type |-> "txt", name |-> name, package |-> NoStr, path |-> path,
     destination |-> destination]

PipA == PipDependency(A, NoStr, NoStr)
PathB == PipPathDependency(B, UrlB, NoStr)
Txt == PipTxtDependency(TxtName, TxtPath, NoStr)

Descs == {PipA, PathB, Txt}

----------------------------------------------------------------------------
\* Parsing the requirements file.

\* str.startswith("#") and str.strip() on a line.
StartsWithHash(line) == line.lead = 0 /\ line.kind = "comment"

Strip(line) == IF line.kind = "blank" THEN NoStr ELSE <<line.kind>>

KeepLine(line) == (~StartsWithHash(line)) /\ Strip(line) # NoStr

_read_requirements_file(f) == SelectSeq(f, KeepLine)

\* pkg_resources.safe_name: every run of characters outside [A-Za-z0-9.]
\* becomes one "-".
RECURSIVE SafeName(_)
SafeName(s) ==
    IF s = <<>> THEN <<>>
    ELSE IF Head(s) \in NameChars THEN <<Head(s)>> \o SafeName(Tail(s))
    ELSE IF Len(s) > 1 /\ s[2] \notin NameChars THEN SafeName(Tail(s))
    ELSE <<"-">> \o SafeName(Tail(s))

\* pkg_resources.yield_lines: strips each line and skips the blank ones and
\* those that then start with "#".
YieldLine(line) == line.kind = "req"

Requirement(line) == [project_name |-> SafeName(line.name), specs |-> line.specs, url |-> line.url]

RECURSIVE MapRequirement(_)
MapRequirement(lines) ==
    IF lines = <<>> THEN <<>>
    ELSE <<Requirement(Head(lines))>> \o MapRequirement(Tail(lines))

parse_requirements(lines) == MapRequirement(SelectSeq(lines, YieldLine))

\* "".join(requirement.specs[0] if requirement.specs else ())
Version(requirement) ==
    IF requirement.specs # <<>> THEN requirement.specs[1][1] \o requirement.specs[1][2] ELSE NoStr

ChildOf(requirement, destination) ==
    IF requirement.url # NoStr
    THEN PipPathDependency(requirement.project_name, requirement.url, destination)
    ELSE PipDependency(requirement.project_name,
                       requirement.project_name \o Version(requirement), destination)

RECURSIVE MapChild(_, _)
MapChild(parsed, destination) ==
    IF parsed = <<>> THEN <<>>
    ELSE <<ChildOf(Head(parsed), destination)>> \o MapChild(Tail(parsed), destination)

\* The sequence sq without the elements that repeat an earlier one.
RECURSIVE Dedup(_)
Dedup(sq) ==
    IF sq = <<>> THEN <<>>
    ELSE LET front == Dedup(SubSeq(sq, 1, Len(sq) - 1))
             x == sq[Len(sq)]
         IN  IF \E k \in 1..Len(front) : front[k] = x THEN front ELSE Append(front, x)

\* A parser that collects the requirements in a set before it builds the
\* children.
_parse_requirements_unique(lines, destination) ==
    MapChild(Dedup(parse_requirements(lines)), destination)

_parse_requirements(lines, destination) == MapChild(parse_requirements(lines), destination)

\* PipTxtDependency.__init__: self._requirements.
InitRequirements(f, destination) == _parse_requirements(_read_requirements_file(f), destination)

----------------------------------------------------------------------------
\* The import system (importlib, sys.modules).

\* importlib.util.find_spec(name): the spec of the registered module when
\* the name is in sys.modules, else what the path finders locate.  "absent"
\* stands for None.
find_spec(name, m, p) ==
    IF name \in m THEN "module"
    ELSE IF name \in DOMAIN p THEN p[name] ELSE "absent"

\* spec.loader is truthy: a namespace package's spec has loader None.
HasLoader(spec) == spec = "module"

\* The outcome of a loader call: the registry after it, the names whose
\* module code it executed (in order), the exception it raised, and for a
\* requirements set the position of the child that raised (0: none).
Outcome(m, execd, raised, at) == [modules |-> m, execd |-> execd, raised |-> raised, at |-> at]

\* PipDependency.is_loaded
PipIsLoaded(d, m) == d.name \in m

\* PipDependency.is_installed
PipIsInstalled(d, m, p) == find_spec(d.name, m, p) # "absent"

\* A load() without the is_loaded() guard: it executes the module again.
PipLoadUnguarded(d, m, p) ==
    LET spec == find_spec(d.name, m, p) IN
    IF spec # "absent" /\ HasLoader(spec)
    THEN Outcome(m \cup {d.name}, <<d.name>>, "none", 0)
    ELSE Outcome(m, <<>>, "none", 0)

\* PipDependency.load
PipLoad(d, m, p) ==
    IF PipIsLoaded(d, m) THEN Outcome(m, <<>>, "none", 0)
    ELSE LET spec == find_spec(d.name, m, p) IN
         IF spec # "absent" /\ HasLoader(spec)
         THEN Outcome(m \cup {d.name}, <<d.name>>, "none", 0)
         ELSE Outcome(m, <<>>, "none", 0)

\* An unload() whose sys.modules.pop is not under suppress(KeyError).
PipUnloadStrict(d, m) ==
    IF d.name \in m THEN Outcome(m \ {d.name}, <<>>, "none", 0)
    ELSE Outcome(m, <<>>, "KeyError", 0)

\* PipDependency.unload: sys.modules.pop under suppress(KeyError).
PipUnload(d, m) == Outcome(m \ {d.name}, <<>>, "none", 0)

\* importlib.reload(module): finds the spec again with the path finders and
\* raises ModuleNotFoundError when there is none; else re-executes the module.
ImportlibReload(name, m, p) ==
    IF (IF name \in DOMAIN p THEN p[name] ELSE "absent") = "absent"
    THEN Outcome(m, <<>>, "ModuleNotFoundError", 0)
    ELSE Outcome(m, <<name>>, "none", 0)

\* A reload() that lets the KeyError out instead of loading.
PipReloadNoFallback(d, m, p) ==
    IF d.name \in m THEN ImportlibReload(d.name, m, p)
    ELSE Outcome(m, <<>>, "KeyError", 0)

\* PipDependency.reload: sys.modules[self.name] raises KeyError for a name
\* that is not registered, and the handler loads it.
PipReload(d, m, p) ==
    IF d.name \in m THEN ImportlibReload(d.name, m, p)
    ELSE PipLoad(d, m, p)

\* PipTxtDependency.is_loaded
TxtIsLoaded(reqs, m) == \A i \in 1..Len(reqs) : reqs[i].name \in m

\* An is_installed() with any() for all().
TxtIsInstalledAny(reqs, m, p) == \E i \in 1..Len(reqs) : PipIsInstalled(reqs[i], m, p)

\* PipTxtDependency.is_installed
TxtIsInstalled(reqs, m, p) == \A i \in 1..Len(reqs) : PipIsInstalled(reqs[i], m, p)

\* The loop of PipTxtDependency.load from child i on.
RECURSIVE TxtLoadFrom(_, _, _, _, _)
TxtLoadFrom(reqs, i, m, p, execd) ==
    IF i > Len(reqs) THEN Outcome(m, execd, "none", 0)
    ELSE IF ~PipIsLoaded(reqs[i], m)
         THEN LET r == PipLoad(reqs[i], m, p) IN
              TxtLoadFrom(reqs, i + 1, r.modules, p, execd \o r.execd)
         ELSE TxtLoadFrom(reqs, i + 1, m, p, execd)

\* PipTxtDependency.load
TxtLoad(reqs, m, p) ==
    IF TxtIsLoaded(reqs, m) THEN Outcome(m, <<>>, "none", 0)
    ELSE TxtLoadFrom(reqs, 1, m, p, <<>>)

\* The loop of PipTxtDependency.unload from child i on.
RECURSIVE TxtUnloadFrom(_, _, _)
TxtUnloadFrom(reqs, i, m) ==
    IF i > Len(reqs) THEN Outcome(m, <<>>, "none", 0)
    ELSE TxtUnloadFrom(reqs, i + 1, PipUnload(reqs[i], m).modules)

\* PipTxtDependency.unload
TxtUnload(reqs, m) == TxtUnloadFrom(reqs, 1, m)

\* The loop of PipTxtDependency.reload from child i on: a KeyError of the
\* child's reload loads the child, any other exception leaves the loop.
RECURSIVE TxtReloadFrom(_, _, _, _, _)
TxtReloadFrom(reqs, i, m, p, execd) ==
    IF i > Len(reqs) THEN Outcome(m, execd, "none", 0)
    ELSE LET r == PipReload(reqs[i], m, p) IN
         IF r.raised = "KeyError"
         THEN LET l == PipLoad(reqs[i], m, p) IN
              TxtReloadFrom(reqs, i + 1, l.modules, p, execd \o l.execd)
         ELSE IF r.raised # "none"
         THEN Outcome(r.modules, execd \o r.execd, r.raised, i)
         ELSE TxtReloadFrom(reqs, i + 1, r.modules, p, execd \o r.execd)

\* PipTxtDependency.reload
TxtReload(reqs, m, p) == TxtReloadFrom(reqs, 1, m, p, <<>>)

\* Dispatch on the descriptor's class.
IsLoaded(d, reqs, m) == IF d.type = "txt" THEN TxtIsLoaded(reqs, m) ELSE PipIsLoaded(d, m)

IsInstalled(d, reqs, m, p) ==
    IF d.type = "txt" THEN TxtIsInstalled(reqs, m, p) ELSE PipIsInstalled(d, m, p)

LoadOf(d, reqs, m, p) == IF d.type = "txt" THEN TxtLoad(reqs, m, p) ELSE PipLoad(d, m, p)

UnloadOf(d, reqs, m) == IF d.type = "txt" THEN TxtUnload(reqs, m) ELSE PipUnload(d, m)

ReloadOf(d, reqs, m, p) == IF d.type = "txt" THEN TxtReload(reqs, m, p) ELSE PipReload(d, m, p)

\* The names a descriptor's loader calls act on.
NamesOf(d, reqs) == IF d.type = "txt" THEN {reqs[i].name : i \in 1..Len(reqs)} ELSE {d.name}

----------------------------------------------------------------------------
\* The package manager (python -m pip, run with subprocess.check_call).

W(word) == <<word>>

\* The distribution a package spec such as "a>=1" names: the characters
\* before the first version specifier.
RECURSIVE PipDist(_)
PipDist(spec) ==
    IF spec = <<>> \/ Head(spec) \in SpecChars THEN <<>>
    ELSE <<Head(spec)>> \o PipDist(Tail(spec))

\* The distribution a direct URL provides.
UrlDist(url) == IF url = UrlB THEN B ELSE NoStr

\* The distributions pip reads from a requirements file (-r).
FileDists(f) == {f[i].name : i \in {j \in 1..Len(f) : f[j].kind = "req"}}

\* The import path after pip has put (kind "module") or removed (kind
\* "absent") the distributions ds.
PipEffect(p, ds, kind) == [n \in DOMAIN p |-> IF n \in ds THEN kind ELSE p[n]]

\* ["--target", self.destination] * bool(self.destination)
TargetArgs(d) == IF d.destination # NoStr THEN <<W("--target"), d.destination>> ELSE <<>>

\* The outcome of an installer call: the import path after it, the
\* exception raised, the name its message quotes, its __cause__, whether
\* importlib.invalidate_caches() ran, and pip's arguments.
Installed(p, raised, errname, cause, invalidated, cmd) ==
    [pkgs |-> p, raised |-> raised, errname |-> errname, cause |-> cause,
     invalidated |-> invalidated, cmd |-> cmd]

\* An install() that invalidates the import caches in a finally clause.
PipInstallFinally(d, exit, p) ==
    LET target == IF d.package # NoStr THEN d.package ELSE d.name
        cmd == <<W("install"), target>> \o TargetArgs(d)
    IN  IF exit # 0
        THEN Installed(p, "RuntimeError", d.name, "CalledProcessError", TRUE, cmd)
        ELSE Installed(PipEffect(p, {PipDist(target)}, "module"), "none", NoStr, "none", TRUE, cmd)

\* PipDependency.install
PipInstall(d, exit, p) ==
    LET target == IF d.package # NoStr THEN d.package ELSE d.name
        cmd == <<W("install"), target>> \o TargetArgs(d)
    IN  IF exit # 0
        THEN Installed(p, "RuntimeError", d.name, "CalledProcessError", FALSE, cmd)
        ELSE Installed(PipEffect(p, {PipDist(target)}, "module"), "none", NoStr, "none", TRUE, cmd)

\* PipPathDependency.install
PipPathInstall(d, exit, p) ==
    LET cmd == <<W("install"), d.path>> \o TargetArgs(d)
    IN  IF exit # 0
        THEN Installed(p, "RuntimeError", d.name, "CalledProcessError", FALSE, cmd)
        ELSE Installed(PipEffect(p, {UrlDist(d.path)}, "module"), "none", NoStr, "none", TRUE, cmd)

\* An uninstall() that runs pip with subprocess.call and ignores its exit code.
PipUninstallUnchecked(d, exit, p) ==
    LET cmd == <<W("uninstall"), d.name>>
    IN  IF exit # 0
        THEN Installed(p, "none", NoStr, "none", TRUE, cmd)
        ELSE Installed(PipEffect(p, {d.name}, "absent"), "none", NoStr, "none", TRUE, cmd)

\* PipDependency.uninstall (inherited by PipPathDependency): check_call's
\* CalledProcessError is not caught.
PipUninstall(d, exit, p) ==
    LET cmd == <<W("uninstall"), d.name>>
    IN  IF exit # 0
        THEN Installed(p, "CalledProcessError", NoStr, "none", FALSE, cmd)
        ELSE Installed(PipEffect(p, {d.name}, "absent"), "none", NoStr, "none", TRUE, cmd)

\* PipDependency.update (inherited by PipPathDependency)
PipUpdate(d, exit, p) ==
    LET cmd == <<W("install"), W("--upgrade"), d.name>>
    IN  IF exit # 0
        THEN Installed(p, "CalledProcessError", NoStr, "none", FALSE, cmd)
        ELSE Installed(PipEffect(p, {d.name}, "module"), "none", NoStr, "none", FALSE, cmd)

\* An install() that installs the parsed children instead of handing the
\* file to pip.
TxtInstallParsed(d, exit, p, f) ==
    LET cmd == <<W("install"), W("-r"), d.path>> \o TargetArgs(d)
        names == {requirements[i].name : i \in 1..Len(requirements)}
    IN  IF exit # 0
        THEN Installed(p, "RuntimeError", d.path, "CalledProcessError", FALSE, cmd)
        ELSE Installed(PipEffect(p, names, "module"), "none", NoStr, "none", TRUE, cmd)

\* PipTxtDependency.install: pip reads the file at self.path itself.
TxtInstall(d, exit, p, f) ==
    LET cmd == <<W("install"), W("-r"), d.path>> \o TargetArgs(d)
    IN  IF exit # 0
        THEN Installed(p, "RuntimeError", d.path, "CalledProcessError", FALSE, cmd)
        ELSE Installed(PipEffect(p, FileDists(f), "module"), "none", NoStr, "none", TRUE, cmd)

\* PipTxtDependency.uninstall
TxtUninstall(d, exit, p, f) ==
    LET cmd == <<W("uninstall"), W("-r"), d.path>>
    IN  IF exit # 0
        THEN Installed(p, "CalledProcessError", NoStr, "none", FALSE, cmd)
        ELSE Installed(PipEffect(p, FileDists(f), "absent"), "none", NoStr, "none", TRUE, cmd)

\* PipTxtDependency.update
TxtUpdate(d, exit, p, f) ==
    LET cmd == <<W("install"), W("--upgrade"), W("-r"), d.path>>
    IN  IF exit # 0
        THEN Installed(p, "CalledProcessError", NoStr, "none", FALSE, cmd)
        ELSE Installed(PipEffect(p, FileDists(f), "module"), "none", NoStr, "none", FALSE, cmd)

\* Dispatch on the descriptor's class.
InstallOf(d, exit, p, f) ==
    IF d.type = "txt" THEN TxtInstall(d, exit, p, f)
    ELSE IF d.type = "path" THEN PipPathInstall(d, exit, p)
    ELSE PipInstall(d, exit, p)

UninstallOf(d, exit, p, f) ==
    IF d.type = "txt" THEN TxtUninstall(d, exit, p, f) ELSE PipUninstall(d, exit, p)

UpdateOf(d, exit, p, f) ==
    IF d.type = "txt" THEN TxtUpdate(d, exit, p, f) ELSE PipUpdate(d, exit, p)

----------------------------------------------------------------------------
\* The batch driver.

\* What the driver did, in order: a call of is_installed() on entry i with
\* its result, a call of install() on entry i with pip's exit code, or the
\* "already satisfied" notice for entry i with the name it quotes.
Event(ev, i, res, exit, name) == [ev |-> ev, i |-> i, res |-> res, exit |-> exit, name |-> name]

\* The loop of install_dependencies from entry i on.  Both copies of
\* batchprocess.py hold the same loop; the notice is a print() in one and a
\* logger.info() in the other.
RECURSIVE Drive(_, _, _, _, _, _, _, _)
Drive(deps, exits, i, reqs, m, p, f, trace) ==
    IF i > Len(deps) THEN [pkgs |-> p, trace |-> trace, raised |-> "none", at |-> 0]
    ELSE LET d == deps[i]
             inst == IsInstalled(d, reqs, m, p)
             asked == Append(trace, Event("is_installed", i, inst, 0, NoStr))
         IN  IF ~inst
             THEN LET r == InstallOf(d, exits[i], p, f)
                      called == Append(asked, Event("install", i, FALSE, exits[i], NoStr))
                  IN  IF r.raised # "none"
                      THEN [pkgs |-> r.pkgs, trace |-> called, raised |-> r.raised, at |-> i]
                      ELSE Drive(deps, exits, i + 1, reqs, m, r.pkgs, f, called)
             ELSE Drive(deps, exits, i + 1, reqs, m, p, f,
                        Append(asked, Event("notice", i, TRUE, 0, d.name)))

\* A driver that reports nothing for an entry that is already installed.
RECURSIVE DriveSilent(_, _, _, _, _, _, _, _)
DriveSilent(deps, exits, i, reqs, m, p, f, trace) ==
    IF i > Len(deps) THEN [pkgs |-> p, trace |-> trace, raised |-> "none", at |-> 0]
    ELSE LET d == deps[i]
             inst == IsInstalled(d, reqs, m, p)
             asked == Append(trace, Event("is_installed", i, inst, 0, NoStr))
         IN  IF ~inst
             THEN LET r == InstallOf(d, exits[i], p, f)
                      called == Append(asked, Event("install", i, FALSE, exits[i], NoStr))
                  IN  IF r.raised # "none"
                      THEN [pkgs |-> r.pkgs, trace |-> called, raised |-> r.raised, at |-> i]
                      ELSE DriveSilent(deps, exits, i + 1, reqs, m, r.pkgs, f, called)
             ELSE DriveSilent(deps, exits, i + 1, reqs, m, p, f, asked)

install_dependencies_silent(deps, exits, reqs, m, p, f) ==
    DriveSilent(deps, exits, 1, reqs, m, p, f, <<>>)

\* A driver that goes on with the next entry after a failed install() and
\* raises the first failure at the end.
RECURSIVE DriveSoft(_, _, _, _, _, _, _, _, _, _)
DriveSoft(deps, exits, i, reqs, m, p, f, trace, raised, at) ==
    IF i > Len(deps) THEN [pkgs |-> p, trace |-> trace, raised |-> raised, at |-> at]
    ELSE LET d == deps[i]
             inst == IsInstalled(d, reqs, m, p)
             asked == Append(trace, Event("is_installed", i, inst, 0, NoStr))
         IN  IF ~inst
             THEN LET r == InstallOf(d, exits[i], p, f)
                      called == Append(asked, Event("install", i, FALSE, exits[i], NoStr))
                  IN  IF r.raised # "none" /\ raised = "none"
                      THEN DriveSoft(deps, exits, i + 1, reqs, m, r.pkgs, f, called, r.raised, i)
                      ELSE DriveSoft(deps, exits, i + 1, reqs, m, r.pkgs, f, called, raised, at)
             ELSE DriveSoft(deps, exits, i + 1, reqs, m, p, f,
                            Append(asked, Event("notice", i, TRUE, 0, d.name)), raised, at)

install_dependencies_soft(deps, exits, reqs, m, p, f) ==
    DriveSoft(deps, exits, 1, reqs, m, p, f, <<>>, "none", 0)

\* install_dependencies
install_dependencies(deps, exits, reqs, m, p, f) == Drive(deps, exits, 1, reqs, m, p, f, <<>>)

----------------------------------------------------------------------------
\* The state machine.

NoDesc == [type |-> "none", name |-> NoStr, package |-> NoStr, path |-> NoStr, destination |-> NoStr]

\* The record of a call, before its outcome is filled in.
Call(op, d) ==
    [op |-> op, d |-> d, exit |-> 0, raised |-> "none", errname |-> NoStr,
     cause |-> "none", invalidated |-> FALSE, cmd |-> <<>>,
     pre_modules |-> modules, pre_pkgs |-> pkgs,
     execd |-> <<>>, at |-> 0, result |-> FALSE, deps |-> <<>>, trace |-> <<>>]

EnvInit ==
    /\ modules = {}
    /\ pkgs \in [Names -> Kinds]
    /\ last = Call("init", NoDesc)

\* A fresh process with a PipTxtDependency just constructed from the file.
Init ==
    /\ file \in MainFiles
    /\ srcFile = file
    /\ requirements = InitRequirements(file, Txt.destination)
    /\ EnvInit

\* PipTxtDependency.__init__: a new descriptor replaces the old one.
Construct ==
    /\ requirements' = InitRequirements(file, Txt.destination)
    /\ srcFile' = file
    /\ last' = Call("construct", Txt)
    /\ UNCHANGED <<modules, pkgs, file>>

\* The files one edit away from f: a line of S appended, or the last line
\* removed.
Edits(f, S, n) ==
    {Append(f, l) : l \in {x \in S : Len(f) < n}} \cup {SubSeq(f, 1, Len(f) - 1) : k \in {x \in {1} : Len(f) > 0}}

\* The requirements file is edited outside the program.
ChangeFile(f) ==
    /\ f # file
    /\ file' = f
    /\ last' = Call("changefile", NoDesc)
    /\ UNCHANGED <<modules, pkgs, srcFile, requirements>>

QueryIsLoaded(d) ==
    /\ last' = [Call("is_loaded", d) EXCEPT !.result = IsLoaded(d, requirements, modules)]
    /\ UNCHANGED <<modules, pkgs, file, srcFile, requirements>>

QueryIsInstalled(d) ==
    /\ last' = [Call("is_installed", d) EXCEPT !.result = IsInstalled(d, requirements, modules, pkgs)]
    /\ UNCHANGED <<modules, pkgs, file, srcFile, requirements>>

Loaded(op, d, r, inval) ==
    /\ modules' = r.modules
    /\ last' = [Call(op, d) EXCEPT !.execd = r.execd, !.raised = r.raised, !.at = r.at,
                                   !.invalidated = inval]
    /\ UNCHANGED <<pkgs, file, srcFile, requirements>>

Load(d) == Loaded("load", d, LoadOf(d, requirements, modules, pkgs), FALSE)

\* Each PipDependency.unload ends with importlib.invalidate_caches().
Unload(d) == Loaded("unload", d, UnloadOf(d, requirements, modules), NamesOf(d, requirements) # {})

Reload(d) == Loaded("reload", d, ReloadOf(d, requirements, modules, pkgs), FALSE)

Ran(op, d, exit, r) ==
    /\ pkgs' = r.pkgs
    /\ last' = [Call(op, d) EXCEPT !.exit = exit, !.raised = r.raised, !.errname = r.errname,
                                   !.cause = r.cause, !.invalidated = r.invalidated,
                                   !.cmd = r.cmd]
    /\ UNCHANGED <<modules, file, srcFile, requirements>>

Install(d, exit) == Ran("install", d, exit, InstallOf(d, exit, pkgs, file))

Uninstall(d, exit) == Ran("uninstall", d, exit, UninstallOf(d, exit, pkgs, file))

Update(d, exit) == Ran("update", d, exit, UpdateOf(d, exit, pkgs, file))

InstallDependencies(deps, exits) ==
    LET r == install_dependencies(deps, exits, requirements, modules, pkgs, file) IN
    /\ pkgs' = r.pkgs
    /\ last' = [Call("install_dependencies", NoDesc) EXCEPT !.deps = deps, !.trace = r.trace,
                                                            !.raised = r.raised, !.at = r.at]
    /\ UNCHANGED <<modules, file, srcFile, requirements>>

\* The descriptors' lifecycle.
Next ==
    \/ Construct
    \/ \E f \in Edits(file, MainLines, MaxLines) : ChangeFile(f)
    \/ \E d \in Descs : QueryIsLoaded(d)
    \/ \E d \in Descs : QueryIsInstalled(d)
    \/ \E d \in Descs : Load(d)
    \/ \E d \in Descs : Unload(d)
    \/ \E d \in Descs : Reload(d)
    \/ \E d \in Descs, exit \in ExitCodes : Install(d, exit)
    \/ \E d \in Descs, exit \in ExitCodes : Uninstall(d, exit)
    \/ \E d \in Descs, exit \in ExitCodes : Update(d, exit)

Spec == Init /\ [][Next]_vars

\* The batch driver over every list of descriptors.
NextBatch ==
    \E deps \in SeqsUpTo(Descs, MaxDeps) : \E exits \in [1..Len(deps) -> ExitCodes] :
        InstallDependencies(deps, exits)

SpecBatch == Init /\ [][NextBatch]_vars

\* Construction from every file of the parsing bounds.
InitParse ==
    /\ file \in ParseFiles
    /\ srcFile = file
    /\ requirements = InitRequirements(file, Txt.destination)
    /\ modules = {}
    /\ pkgs = [n \in Names |-> "absent"]
    /\ last = Call("init", NoDesc)

NextParse ==
    \/ Construct
    \/ \E f \in Edits(file, ParseLines, MaxParseLines) : ChangeFile(f)

SpecParse == InitParse /\ [][NextParse]_vars

----------------------------------------------------------------------------
\* The batch driver's claims (checked under SpecBatch).

BatchDone == last.op = "install_dependencies"

\* C1: when no install() fails, install_dependencies goes through the
\* entries in order: for the j-th entry it asks is_installed() once, and
\* then either calls install() (the answer was false) or emits one "already
\* satisfied" notice quoting the entry's name (the answer was true), and
\* nothing else.
C1_BatchVisitsInOrder ==
    (BatchDone /\ last.raised = "none") =>
        LET t == last.trace
            deps == last.deps
        IN  /\ Len(t) = 2 * Len(deps)
            /\ \A j \in 1..Len(deps) :
                /\ t[2 * j - 1].ev = "is_installed" /\ t[2 * j - 1].i = j
                /\ t[2 * j].i = j
                /\ t[2 * j].ev = IF t[2 * j - 1].res THEN "notice" ELSE "install"
                /\ t[2 * j].ev = "notice" => t[2 * j].name = deps[j].name

\* The scenario [D1 installed, D2 not installed]: one notice, then one install.
C1_Witness ==
    /\ BatchDone /\ last.raised = "none" /\ Len(last.deps) = 2
    /\ last.trace[2].ev = "notice" /\ last.trace[4].ev = "install"

\* The import path after the installs of the trace t that exited with 0,
\* applied in order to p.
RECURSIVE AfterInstalls(_, _, _, _, _)
AfterInstalls(t, k, deps, p, f) ==
    IF k > Len(t) THEN p
    ELSE IF t[k].ev = "install" /\ t[k].exit = 0
         THEN AfterInstalls(t, k + 1, deps, InstallOf(deps[t[k].i], 0, p, f).pkgs, f)
         ELSE AfterInstalls(t, k + 1, deps, p, f)

\* C2: when install() of the entry at position i fails, the driver raises
\* that failure at once: the failed install() is the last thing it did, no
\* later entry was asked, installed or reported, and what the earlier
\* entries installed is still installed.
C2_BatchFailFast ==
    (BatchDone /\ last.raised # "none") =>
        LET t == last.trace
            i == last.at
        IN  /\ i \in 1..Len(last.deps)
            /\ last.raised = "RuntimeError"
            /\ t # <<>>
            /\ t[Len(t)] = Event("install", i, FALSE, t[Len(t)].exit, NoStr)
            /\ t[Len(t)].exit # 0
            /\ \A k \in 1..Len(t) : t[k].i <= i
            /\ \A k \in 1..(Len(t) - 1) : t[k].ev = "install" => t[k].exit = 0
            /\ pkgs = AfterInstalls(t, 1, last.deps, last.pre_pkgs, file)

\* The first of two entries fails, and the second, which is not installed
\* either, is left alone.
C2_Witness ==
    /\ BatchDone /\ last.raised # "none" /\ last.at = 1 /\ Len(last.deps) = 2
    /\ ~IsInstalled(last.deps[2], requirements, modules, pkgs)

----------------------------------------------------------------------------
\* The loader's claims (checked under Spec).

\* Every name the descriptor loads is found with a loader.
Loadable(d, reqs, m, p) == \A n \in NamesOf(d, reqs) : HasLoader(find_spec(n, m, p))

\* load() called again in the present state changes and executes nothing.
LoadIsNoOp(d) == LoadOf(d, requirements, modules, pkgs) = Outcome(modules, <<>>, "none", 0)

C4_Original ==
    last.op = "unload" =>
        /\ ~IsLoaded(last.d, requirements, modules)
        /\ last.raised = "none"
        /\ modules = last.pre_modules \ NamesOf(last.d, requirements)

\* C4, amended: unload() never raises and removes exactly the descriptor's
\* names from the registry; is_loaded() is then false, except for a
\* requirements set without children, for which it stays true.
C4_UnloadThenNotLoaded ==
    last.op = "unload" =>
        /\ last.raised = "none"
        /\ modules = last.pre_modules \ NamesOf(last.d, requirements)
        /\ IsLoaded(last.d, requirements, modules) <=> NamesOf(last.d, requirements) = {}

\* unload() of a set whose only child is not registered, beside another
\* registered name.
C4_Witness ==
    /\ last.op = "unload" /\ last.d = Txt /\ Len(requirements) = 1
    /\ requirements[1].name = B /\ last.pre_modules = {A} /\ modules = {A}

\* The children of reqs before position i.
Before(reqs, i) == SubSeq(reqs, 1, i - 1)

InSeq(x, sq) == \E k \in 1..Len(sq) : sq[k] = x

C7_AggregateQueries ==
    /\ (last.op = "is_installed" /\ last.d = Txt) =>
          (last.result <=> \A i \in 1..Len(requirements) :
                              PipIsInstalled(requirements[i], modules, pkgs))
    /\ (last.op = "is_loaded" /\ last.d = Txt) =>
          (last.result <=> \A i \in 1..Len(requirements) :
                              PipIsLoaded(requirements[i], modules))
    /\ (last.op \in {"is_installed", "is_loaded"} /\ last.d = Txt /\ requirements = <<>>) =>
          last.result

\* is_installed() of a set with one child installed and the other not.
C7_Witness ==
    /\ last.op = "is_installed" /\ last.d = Txt /\ Len(requirements) = 2
    /\ PipIsInstalled(requirements[1], modules, pkgs)
    /\ ~PipIsInstalled(requirements[2], modules, pkgs)
    /\ ~last.result

----------------------------------------------------------------------------
\* The installer's claims (checked under Spec).

PipRan == last.op \in {"install", "uninstall", "update"}

\* C8 as stated: an install() whose pip exits with a non-zero code raises an
\* installation error that quotes the descriptor's name and has the process
\* failure as its cause; the import caches are invalidated exactly when pip
\* exits with 0.
C8_Original ==
    last.op = "install" =>
        /\ last.exit # 0 =>
              /\ last.raised = "RuntimeError"
              /\ last.errname = last.d.name
              /\ last.cause = "CalledProcessError"
        /\ last.invalidated <=> last.exit = 0

\* C8, amended: the error quotes the name of a single-package or path
\* descriptor, and the path of the requirements file of a requirements set.
C8_InstallError ==
    last.op = "install" =>
        /\ last.exit # 0 =>
              /\ last.raised = "RuntimeError"
              /\ last.errname = (IF last.d.type = "txt" THEN last.d.path ELSE last.d.name)
              /\ last.cause = "CalledProcessError"
        /\ last.invalidated <=> last.exit = 0

\* A failed install() of each kind of descriptor is in reach; this is the
\* requirements set's.
C8_Witness ==
    /\ last.op = "install" /\ last.d = Txt /\ last.exit # 0
    /\ last.errname = TxtPath /\ last.errname # Txt.name

\* C9 as stated: pip's exit code 0 is success, and a non-zero exit code of
\* install(), uninstall() or update() reaches the caller as the installation
\* error.
C9_Original ==
    PipRan =>
        /\ last.exit = 0 => last.raised = "none"
        /\ last.exit # 0 => last.raised = "RuntimeError"

\* C9, amended: a non-zero exit code reaches the caller as the installation
\* error (with the process error as its cause) from install(), and as the
\* process error itself from uninstall() and update().
C9_ExitCodes ==
    PipRan =>
        /\ last.exit = 0 => last.raised = "none"
        /\ (last.exit # 0 /\ last.op = "install") =>
              (last.raised = "RuntimeError" /\ last.cause = "CalledProcessError")
        /\ (last.exit # 0 /\ last.op # "install") =>
              (last.raised = "CalledProcessError" /\ last.cause = "none")

\* An update() of a requirements set whose pip exits with 1.
C9_Witness ==
    /\ last.op = "update" /\ last.d = Txt /\ last.exit = 1
    /\ last.raised = "CalledProcessError"

\* The children parsed from the contents the constructor read.
Parsed == InitRequirements(srcFile, Txt.destination)

\* The names a loader call registered, removed or executed.
Touched == ((modules \ last.pre_modules) \cup (last.pre_modules \ modules))
              \cup {last.execd[k] : k \in 1..Len(last.execd)}

\* What the descriptor's own calls are bound to, whatever the file holds now.
ParsedOnce ==
    /\ requirements = Parsed
    /\ (last.d = Txt /\ last.op \in {"load", "unload", "reload"}) =>
          Touched \subseteq NamesOf(Txt, Parsed)
    /\ (last.d = Txt /\ last.op = "is_loaded") =>
          (last.result <=> TxtIsLoaded(Parsed, modules))
    /\ (last.d = Txt /\ last.op = "is_installed") =>
          (last.result <=> TxtIsInstalled(Parsed, modules, pkgs))

\* C10 as stated: the file is read once, at construction, so that also what
\* install(), uninstall() and update() hand to pip is the set of packages
\* is_installed() checks.
C10_Original ==
    /\ ParsedOnce
    /\ (last.d = Txt /\ PipRan /\ last.exit = 0) =>
          pkgs = PipEffect(last.pre_pkgs, NamesOf(Txt, requirements),
                           IF last.op = "uninstall" THEN "absent" ELSE "module")

\* C10, amended: the requirements sequence, is_installed(), is_loaded(),
\* load(), unload() and reload() are bound to the contents read at
\* construction; install(), uninstall() and update() hand the path to pip,
\* which acts on the file as it is when they are called.
C10_FileReadOnce ==
    /\ ParsedOnce
    /\ (last.d = Txt /\ PipRan /\ last.exit = 0) =>
          pkgs = PipEffect(last.pre_pkgs, FileDists(file),
                           IF last.op = "uninstall" THEN "absent" ELSE "module")

\* install() after the file has gained a line the descriptor never parsed.
C10_Witness ==
    /\ last.op = "install" /\ last.d = Txt /\ last.exit = 0
    /\ file # srcFile
    /\ requirements = Parsed
    /\ FileDists(file) # NamesOf(Txt, requirements)
    /\ pkgs # last.pre_pkgs
    /\ ~IsInstalled(Txt, requirements, modules, pkgs)

----------------------------------------------------------------------------
\* The parser's claim (checked under SpecParse).

\* The positions of the requirement lines of f: the lines that are neither
\* blank nor a comment.
ValidAt(f) == {j \in 1..Len(f) : f[j].kind = "req"}

\* The position of the i-th requirement line of f.
NthValid(f, i) == CHOOSE j \in ValidAt(f) : Cardinality({k \in ValidAt(f) : k < j}) = i - 1

\* C6: the requirements sequence has one child per requirement line of the
\* file the constructor read, in the file's order: the i-th child has the
\* normalised name of the i-th requirement line, and is a path descriptor
\* with the line's URL when it has one, else a single-package descriptor
\* whose package spec is the name followed by the line's first version
\* specifier.
C6_ParseOrder ==
    /\ Len(requirements) = Cardinality(ValidAt(srcFile))
    /\ \A i \in 1..Len(requirements) :
          LET line == srcFile[NthValid(srcFile, i)]
              child == requirements[i]
          IN  /\ child.name = SafeName(line.name)
              /\ child.destination = Txt.destination
              /\ IF line.url # NoStr
                 THEN child.type = "path" /\ child.path = line.url
                 ELSE /\ child.type = "pip"
                      /\ child.package =
                            child.name \o (IF line.specs = <<>> THEN NoStr
                                           ELSE line.specs[1][1] \o line.specs[1][2])

\* A descriptor constructed from an indented comment line and the line
\* "m__p<2": one child, named "m-p", with the package spec "m-p<2".
C6_Witness ==
    /\ last.op = "construct"
    /\ srcFile = <<CommentLine(1), ReqLine(0, MP, <<LT2>>, NoStr)>>
    /\ requirements = <<PipDependency(<<"m", "-", "p">>, <<"m", "-", "p", "<", "2">>, NoStr)>>

=============================================================================
